---- MODULE Spec2Model ----
(***************************************************************************)
(* Local media persistence of ponto-os: the timeline index document kept   *)
(* in one localStorage slot, the IndexedDB blob store, the capture save    *)
(* with its overflow migration, the notes save of the entry view and the   *)
(* thumbnail write-back of VideoThumb; the lifecycle of VideoThumb and of  *)
(* useResolvedMediaUrl with their object URLs, and the two functions that  *)
(* derive a video thumbnail.                                               *)
(***************************************************************************)
EXTENDS Integers, Sequences, FiniteSets, TLC

(* ------------------------------ bounds --------------------------------- *)
\* entry identifiers (crypto.randomUUID values) are 1..MaxIds
MaxIds == 2
\* longest legacy document found in the slot when the program starts
MaxInitLen == 1
\* longest list handed to migrateTimelineMedia / found by readTimeline when
\* these are exercised on their own
MaxListLen == 2
\* the slot's capacity is one of MinQuota..MaxQuota size units
MinQuota == 4
MaxQuota == 4
\* size units an inline (data:) media encoding adds to the document
InlineCost == 2
\* run() calls of one VideoThumb instance that are followed
MaxRuns == 2
\* effects (one per mediaUri value) of one useResolvedMediaUrl caller
MaxEffects == 3
MaxRecordings == 2
MaxCalls == 2

Ids == 1..MaxIds
Payloads == {1}                 \* binary payloads (blob contents)
NoPayload == 0                  \* "no blob" / getMedia's null
Undefined == "undefined"        \* JavaScript undefined / missing property
ThumbUris == {"thumbA", "thumbB"}  \* JPEG data URLs of thumbnails
CapturedThumbs == {"thumbA"}    \* thumbnails made by the capture page
DerivedThumbs == {"thumbB"}     \* thumbnails derived later from stored media
Notes == {"", "note"}           \* trimmed contents of the note field
MediaTypes == {"photo", "video"}

(* ------------------------------ media URIs ----------------------------- *)
\* A media URI string is modelled by its scheme prefix and what follows it.
DataUri(p) == [scheme |-> "data", key |-> 0, payload |-> p]

toIdbUri(key) == [scheme |-> "idb", key |-> key, payload |-> NoPayload]

isIdbUri(uri) == uri.scheme = "idb"

isDataUri(uri) == uri.scheme = "data"

(* ------------------------------ entries -------------------------------- *)
MkEntry(id, createdAt, mediaType, mediaUri, thumbUri, textBlocks) ==
    [id |-> id, createdAt |-> createdAt, mediaType |-> mediaType,
     mediaUri |-> mediaUri, thumbUri |-> thumbUri, textBlocks |-> textBlocks]

MkBlock(id, createdAt, content) ==
    [id |-> id, createdAt |-> createdAt, content |-> content]

(* --------------------- JSON text of the index document ----------------- *)
\* JSON.stringify of one entry: a property whose value is undefined is
\* omitted from the object text.
stringifyEntry(e) ==
    IF e.thumbUri = Undefined
    THEN [id |-> e.id, createdAt |-> e.createdAt, mediaType |-> e.mediaType,
          mediaUri |-> e.mediaUri, textBlocks |-> e.textBlocks]
    ELSE [id |-> e.id, createdAt |-> e.createdAt, mediaType |-> e.mediaType,
          mediaUri |-> e.mediaUri, thumbUri |-> e.thumbUri,
          textBlocks |-> e.textBlocks]

\* The slot's content: kind "absent" (getItem gives null), "empty" (the empty
\* string), "garbage" (text JSON.parse rejects), "jsonOther" (valid JSON that
\* is no array, e.g. null or {}), "jsonArray" (items = the array's objects).
SlotText(kind, items) == [kind |-> kind, items |-> items]

JSONstringify(entries) ==
    SlotText("jsonArray", [i \in 1..Len(entries) |-> stringifyEntry(entries[i])])

\* Reading a property of a parsed object: a missing key reads as undefined.
parseEntry(o) ==
    MkEntry(o.id, o.createdAt, o.mediaType, o.mediaUri,
            IF "thumbUri" \in DOMAIN o THEN o.thumbUri ELSE Undefined,
            o.textBlocks)

\* JSON.parse: throws on text that is no JSON, else the parsed value.
JSONparse(raw) ==
    CASE raw.kind = "jsonArray" ->
            [threw |-> FALSE, isArray |-> TRUE,
             list |-> [i \in 1..Len(raw.items) |-> parseEntry(raw.items[i])]]
      [] raw.kind = "jsonOther" ->
            [threw |-> FALSE, isArray |-> FALSE, list |-> <<>>]
      [] OTHER -> [threw |-> TRUE, isArray |-> FALSE, list |-> <<>>]

\* if (raw) ...: null and the empty string are falsy
Truthy(raw) == raw.kind \notin {"absent", "empty"}

\* size of one serialized entry, in the units of the slot's capacity
EntrySize(o) ==
    1 + (IF isDataUri(o.mediaUri) THEN InlineCost ELSE 0)
      + (IF "thumbUri" \in DOMAIN o THEN 1 ELSE 0)
      + Len(o.textBlocks)

RECURSIVE SumSizes(_)
SumSizes(items) ==
    IF items = <<>> THEN 0 ELSE EntrySize(Head(items)) + SumSizes(Tail(items))

TextSize(raw) == SumSizes(raw.items)


(* ------------------------------ localStorage --------------------------- *)
\* localStorage.setItem(KEY, text): stores the text, or throws
\* QuotaExceededError and leaves the slot as it was.
SetItem(raw, cap, text) ==
    IF TextSize(text) > cap
    THEN [threw |-> TRUE, err |-> "QuotaExceededError", slot |-> raw]
    ELSE [threw |-> FALSE, err |-> "none", slot |-> text]

isQuotaExceeded(err) ==
    err \in {"QuotaExceededError", "NS_ERROR_DOM_QUOTA_REACHED"}

\* the same function without its try/catch
ReadSlotNoCatch(raw) ==
    LET parsed == IF Truthy(raw) THEN JSONparse(raw)
                  ELSE [threw |-> FALSE, isArray |-> TRUE, list |-> <<>>]
    IN  IF parsed.threw
        THEN [raised |-> TRUE, list |-> <<>>]
        ELSE [raised |-> FALSE,
              list |-> IF parsed.isArray THEN parsed.list ELSE <<>>]

\* try { raw = getItem; list = raw ? JSON.parse(raw) : []; Array.isArray ... }
\* catch { return [] }   (the four copies of the function are identical)
ReadSlot(raw) ==
    LET parsed == IF Truthy(raw) THEN JSONparse(raw)
                  ELSE [threw |-> FALSE, isArray |-> TRUE, list |-> <<>>]
    IN  IF parsed.threw
        THEN [raised |-> FALSE, list |-> <<>>]
        ELSE [raised |-> FALSE,
              list |-> IF parsed.isArray THEN parsed.list ELSE <<>>]

readTimeline(raw) == ReadSlot(raw)           \* timeline page

readTimelineCapture(raw) == ReadSlot(raw)    \* capture page

readTimelineThumb(raw) == ReadSlot(raw)      \* VideoThumb

readTimelineEntry(raw) == ReadSlot(raw)      \* entry view

(* ------------------------------ blob store ----------------------------- *)
\* a put that resolves although nothing was stored
putMediaLost(store, key, blob, ok) ==
    IF ok THEN [threw |-> FALSE, store |-> store]
    ELSE [threw |-> TRUE, store |-> store]

\* putMedia(key, blob): resolves once the transaction completed, or rejects
\* (ok = FALSE) with the store unchanged.
putMedia(store, key, blob, ok) ==
    IF ok THEN [threw |-> FALSE, store |-> [store EXCEPT ![key] = blob]]
    ELSE [threw |-> TRUE, store |-> store]

getMedia(store, key) == store[key]

\* dataUrlToBlob(dataUrl): fetch + blob(); rejects when the URL cannot be
\* decoded (ok = FALSE).
dataUrlToBlob(dataUrl, ok) ==
    IF ok THEN [threw |-> FALSE, blob |-> dataUrl.payload]
    ELSE [threw |-> TRUE, blob |-> NoPayload]

\* makePhotoThumbFromDataUrl(dataUrl): the image loads and a JPEG data URL of
\* the downscaled canvas is produced (derived), or img.onerror / a missing 2d
\* context resolves null (derived = Null).  It never rejects.
Null == "null"

makePhotoThumbFromDataUrl(dataUrl, derived) == derived

\* x ?? undefined
OrUndefined(x) == IF x = Null THEN Undefined ELSE x

(* ------------------------------ overflow migration --------------------- *)
\* One iteration of the loop in migrateTimelineMedia.  env gives what the
\* awaited operations of this iteration do: decode, put (BOOLEAN, FALSE =
\* raises) and thumb (the derived thumbnail or Null).  The result carries what
\* the iteration pushed to the list, the store, the number of puts, whether
\* the iteration ended in the catch (failed) and whether a thumbnail
\* derivation it ran gave null (noThumb).  isInline is the startsWith test,
\* derive the test before the derivation, keepOnCatch says that the catch
\* leaves the original entry to be pushed.
MigrateBody(entry, store, env, isInline, derive, keepOnCatch) ==
    LET keep == [push |-> <<entry>>, store |-> store, puts |-> 0,
                 failed |-> FALSE, noThumb |-> FALSE]
    IN  IF isInline
        THEN LET b == dataUrlToBlob(entry.mediaUri, env.decode)
                 thumbUri ==
                     IF derive
                     THEN OrUndefined(makePhotoThumbFromDataUrl(entry.mediaUri, env.thumb))
                     ELSE entry.thumbUri
                 p == putMedia(store, entry.id, b.blob, env.put)
                 moved == [entry EXCEPT !.mediaUri = toIdbUri(entry.id),
                                        !.thumbUri = thumbUri]
             IN  IF b.threw THEN [keep EXCEPT !.failed = TRUE]
                 ELSE IF p.threw
                      THEN [keep EXCEPT !.failed = TRUE,
                                        !.push = IF keepOnCatch THEN <<entry>>
                                                 ELSE <<moved>>]
                      ELSE [push |-> <<moved>>, store |-> p.store, puts |-> 1,
                            failed |-> FALSE,
                            noThumb |-> derive /\ env.thumb = Null]
        ELSE keep

\* the iteration without its startsWith("data:") test
migrateEntryAlways(entry, store, env) ==
    MigrateBody(entry, store, env, TRUE,
                entry.thumbUri = Undefined /\ entry.mediaType = "photo",
                TRUE)

\* the iteration deriving a thumbnail for whatever lacks one, videos included
migrateEntryAnyThumb(entry, store, env) ==
    MigrateBody(entry, store, env, isDataUri(entry.mediaUri),
                entry.thumbUri = Undefined,
                TRUE)

\* the iteration never deriving a thumbnail
migrateEntryNoThumb(entry, store, env) ==
    MigrateBody(entry, store, env, isDataUri(entry.mediaUri), FALSE,
                TRUE)

\* the iteration pushing the converted entry before the put has settled
migrateEntryEarlyPush(entry, store, env) ==
    MigrateBody(entry, store, env, isDataUri(entry.mediaUri),
                entry.thumbUri = Undefined /\ entry.mediaType = "photo",
                FALSE)

\* if (entry.mediaUri.startsWith("data:")) try { ... push({...entry, mediaUri:
\* toIdbUri(entry.id), thumbUri}); continue } catch {}  push(entry)
migrateEntry(entry, store, env) ==
    MigrateBody(entry, store, env, isDataUri(entry.mediaUri),
                entry.thumbUri = Undefined /\ entry.mediaType = "photo",
                TRUE)

MigrateEnvs ==
    [decode : BOOLEAN, put : BOOLEAN, thumb : DerivedThumbs \cup {Null}]


(* ------------------------------ state ---------------------------------- *)
VARIABLES
    storage,      \* the localStorage slot "ponto.timeline.v1"
    blobStore,    \* IndexedDB store "media": key -> payload (NoPayload = none)
    quota,        \* what the slot can hold (fixed by the browser)
    usedIds,      \* identifiers already drawn by crypto.randomUUID
    clock,        \* new Date()
    captureError, \* capture page: the message shown under the buttons
    pc,           \* onSave: idle, put, write, migrate, done, rejected
    newEntry,     \* onSave: the entry being saved
    saveBlob,     \* onSave: captured.blob as its closure holds it
    wtEntries,    \* writeTimeline(entries): its argument
    updated,      \* migrateTimelineMedia: the list built so far
    migPos,       \* migrateTimelineMedia: entries the loop has gone through
    attempts,     \* setItem calls made by the current writeTimeline call
    migrations,   \* migrateTimelineMedia calls made so far by the caller
    failedIdx,    \* positions whose migration iteration ended in the catch
    noThumbIdx,   \* positions whose thumbnail derivation gave null
    putCount,     \* blob-store puts made by the current migration
    deriving,     \* timeline page: ids whose VideoThumb has run() in flight
    viewId,       \* entry view: id of the entry found at mount (0 = null)
    unhandled,    \* handlers whose promise rejected with nobody to catch it
    lastWrite,    \* history: the last setItem call on the slot
    lastRead,     \* history: the last readTimeline call and its result
    overlapped,   \* history: the last write another writer stored between
                  \* the read and the retry of a capture save
    vtPhase,      \* one VideoThumb instance: new, mounted, gone (unmounted)
    vtEntry,      \* VideoThumb: the entry prop of the last render
    vtThumb,      \* VideoThumb: state thumb
    vtBusy,       \* VideoThumb: state busy
    objectUrlRef, \* VideoThumb: objectUrlRef.current (0 = null)
    vtRuns,       \* VideoThumb: the run() calls of its effect, in order
    vtRevoked,    \* history: revokeObjectURL calls per object URL of a run
    vtAfterCancel, \* history: shared state a run changed after its cancellation
    rsPhase,      \* one useResolvedMediaUrl caller: new, mounted, gone
    rsUri,        \* useResolvedMediaUrl: the mediaUri of the last render
    rsUrl,        \* useResolvedMediaUrl: state url, the value returned
    rsEffects,    \* useResolvedMediaUrl: its effects, in order
    rsRevoked,    \* history: revokeObjectURL calls per object URL of an effect
    rsLast,       \* history: how the last run() of an effect ended
    pl,           \* one call of a video thumbnail function and its promise
    tlPhase,      \* the timeline page: new, mounted, gone (unmounted)
    tlEntries,    \* timeline page: state entries
    tlListeners,  \* timeline page: its handlers registered on window
    tlPending,    \* storage events of other tabs' writes, not yet delivered
    tlLast,       \* history: the last event on window and whether load() ran
    cpPhase,      \* the capture page: live (mounted), gone (unmounted)
    cpCaptured,   \* capture page: state captured
    previewUrlRef, \* capture page: previewUrlRef.current (0 = null)
    recordings,   \* capture page: the recorder.onstop calls, in order
    cpRevoked     \* history: revokeObjectURL calls per preview object URL

vars == <<storage, blobStore, quota, usedIds, clock, captureError, pc,
          newEntry, saveBlob, wtEntries, updated, migPos, attempts,
          migrations, failedIdx, noThumbIdx, putCount, deriving, viewId, unhandled,
          lastWrite, lastRead, overlapped, vtPhase, vtEntry, vtThumb, vtBusy, objectUrlRef,
          vtRuns, vtRevoked, vtAfterCancel, rsPhase, rsUri, rsUrl, rsEffects,
          rsRevoked, rsLast, pl, tlPhase, tlEntries, tlListeners, tlPending,
          tlLast, cpPhase, cpCaptured, previewUrlRef, recordings, cpRevoked>>

saveVars == <<pc, newEntry, saveBlob, wtEntries, updated, migPos, attempts,
              migrations, failedIdx, noThumbIdx, putCount>>
viewVars == <<deriving, viewId>>
thumbVars == <<vtPhase, vtEntry, vtThumb, vtBusy, objectUrlRef, vtRuns,
               vtRevoked, vtAfterCancel>>
\* what no action of the index store changes: the quota and the state of the
\* components that are specified on their own
resolverVars == <<rsPhase, rsUri, rsUrl, rsEffects, rsRevoked, rsLast>>
pipelineVars == <<pl>>
timelineVars == <<tlPhase, tlEntries, tlListeners, tlPending, tlLast>>
reviewVars == <<cpPhase, cpCaptured, previewUrlRef, recordings, cpRevoked>>
laterVars == <<timelineVars, reviewVars>>
componentVars == <<thumbVars, resolverVars, pipelineVars, laterVars>>
fixedVars == <<quota, componentVars, overlapped>>

NoEntry == MkEntry(0, 0, "none", toIdbUri(0), Undefined, <<>>)
NoSlot == SlotText("absent", <<>>)
NoWrite == [writer |-> "none", passed |-> <<>>, ok |-> TRUE,
            migrated |-> FALSE, notified |-> FALSE, before |-> NoSlot]
NoRead == [by |-> "none", raw |-> NoSlot, raised |-> FALSE, list |-> <<>>]
NoOverlap == [writer |-> "none", id |-> 0, value |-> ""]

\* History record of one setItem call: who called it, whether it stored,
\* whether it was the retry after a migration and whether the change event
\* was dispatched after it; for a call that stored, the list its caller was
\* given; for a call that threw, the slot as it was before the call.
WriteRec(writer, passed, threw, migrated, notified, before) ==
    [writer |-> writer, passed |-> IF threw THEN <<>> ELSE passed,
     ok |-> ~threw, migrated |-> migrated, notified |-> notified,
     before |-> IF threw THEN before ELSE NoSlot]

ReadRec(by, raw, r) ==
    [by |-> by, raw |-> raw, raised |-> r.raised, list |-> r.list]

\* One run() call of VideoThumb's effect: the entry and the thumb state its
\* closure holds, where it stands (none: not started; resolve: awaiting
\* resolveVideoUrl; derive: awaiting makeVideoThumbFromUrl; ended), the
\* cancelled flag of its effect, whether it created an object URL, and, as
\* history, what the derivation gave and what became of the write-back.
Run(entry, at) ==
    [entry |-> entry, pc |-> at, cancelled |-> FALSE, minted |-> FALSE,
     got |-> Null, wrote |-> "no"]

NoRun == Run(NoEntry, "none")

\* no VideoThumb has been mounted
vtIdle ==
    /\ vtPhase = "new"
    /\ vtEntry = NoEntry
    /\ vtThumb = Null
    /\ vtBusy = FALSE
    /\ objectUrlRef = 0
    /\ vtRuns = [g \in 1..MaxRuns |-> NoRun]
    /\ vtRevoked = [g \in 1..MaxRuns |-> 0]
    /\ vtAfterCancel = {}

\* the value null of a mediaUri or url, and the mark of a run() that did not
\* call setUrl
NullUrl == [scheme |-> "null", key |-> 0, payload |-> 0]
NoUrl == [scheme |-> "unset", key |-> 0, payload |-> 0]

\* One effect of useResolvedMediaUrl: the mediaUri of its closure, where its
\* run() stands (none: not started; pending: awaiting getMedia; done), the
\* flag active and whether objectUrl holds an object URL it created.
Effect(uri, at) ==
    [uri |-> uri, pc |-> at, active |-> TRUE, minted |-> FALSE]

NoEffect == Effect(NullUrl, "none")

\* the object URL created by effect g
BlobUrl(g) == [scheme |-> "blob", key |-> g, payload |-> 0]

\* how a run() ended: which effect, on which branch, the value it passed to
\* setUrl (NoUrl if it did not call it), whether it created an object URL,
\* logged a warning, or rejected
Resolved(g, kind, url, minted, warned, raised) ==
    [gen |-> g, kind |-> kind, url |-> url, minted |-> minted,
     warned |-> warned, raised |-> raised]

NoResolved == Resolved(0, "none", NoUrl, FALSE, FALSE, FALSE)

\* no caller of useResolvedMediaUrl has been mounted
rsIdle ==
    /\ rsPhase = "new"
    /\ rsUri = NullUrl
    /\ rsUrl = NullUrl
    /\ rsEffects = [g \in 1..MaxEffects |-> NoEffect]
    /\ rsRevoked = [g \in 1..MaxEffects |-> 0]
    /\ rsLast = NoResolved

\* What the browser does with a video source: whether setting it up throws,
\* which of the events error, loadedmetadata, seeked and loadeddata it fires,
\* the duration (0 also for NaN and Infinity) and the dimensions it reports,
\* and whether the canvas gives a 2d context and lets the frame be drawn and
\* encoded.
Sources ==
    [setup : BOOLEAN, error : BOOLEAN, meta : BOOLEAN, seeked : BOOLEAN,
     loadeddata : BOOLEAN, duration : {0, 1}, videoWidth : {0, 1},
     videoHeight : {0, 1}, ctx : BOOLEAN, draw : BOOLEAN]

NoSource ==
    [setup |-> TRUE, error |-> FALSE, meta |-> FALSE, seeked |-> FALSE,
     loadeddata |-> FALSE, duration |-> 0, videoWidth |-> 0,
     videoHeight |-> 0, ctx |-> FALSE, draw |-> FALSE]

\* A call of makeVideoThumbFromUrl (fn = "VideoThumb") or of
\* makeVideoThumbnailFromUrl (fn = "capture"): its source, where it stands
\* (idle: not called; loading: listeners set, video.load() called; seek, data:
\* in waitFor("seeked") / waitFor("loadeddata"); paint: in the 50 ms delay;
\* end: no handler will run any more), the flag of finish (done / finished),
\* whether the promise is resolved and the value it resolved with, whether
\* the error event has fired, and, as history, the number of finish calls.
Pipeline(fn, src, phase, result) ==
    [fn |-> fn, src |-> src, phase |-> phase, result |-> result,
     done |-> FALSE, resolved |-> FALSE, errored |-> FALSE, calls |-> 0]

plIdle == pl = Pipeline("none", NoSource, "idle", Null)

\* One event dispatched on window: its type (the change event, storage,
\* focus), the key of a storage event, whether the page was mounted then and
\* whether a handler called load()
Event(type, key, live, loaded) ==
    [type |-> type, key |-> key, live |-> live, loaded |-> loaded]

NoEvent == Event("none", "none", FALSE, FALSE)

\* The captured state of the capture page: null, a photo (its data URL as
\* mediaUri), or a recording (its preview object URL as mediaUri).
Captured(mediaType, mediaUri, thumbUri, blob) ==
    [mediaType |-> mediaType, mediaUri |-> mediaUri, thumbUri |-> thumbUri,
     blob |-> blob]

NoCaptured == Captured("none", NoUrl, Undefined, NoPayload)

\* One recorder.onstop call: where it stands (none: not called; deriving:
\* awaiting makeVideoThumbnailFromUrl; ended) and whether it created a
\* preview object URL, which is then BlobUrl of its number.
Recording(at, minted) == [pc |-> at, minted |-> minted]

\* the capture page is mounted and nothing has been captured
cpIdle ==
    /\ cpPhase = "live"
    /\ cpCaptured = NoCaptured
    /\ previewUrlRef = 0
    /\ recordings = [g \in 1..MaxRecordings |-> Recording("none", FALSE)]
    /\ cpRevoked = [g \in 1..MaxRecordings |-> 0]

\* no timeline page has been mounted
tlIdle ==
    /\ tlPhase = "new"
    /\ tlEntries = <<>>
    /\ tlListeners = {}
    /\ tlPending = {}
    /\ tlLast = NoEvent

(* ------------------------------ initial states ------------------------- *)
\* Entries a document written by an earlier run can hold under identifier id:
\* media inline or already in the blob store, with or without a thumbnail.
LegacyEntries(id) ==
    { MkEntry(id, 0, t, u, th, <<>>) :
        t \in MediaTypes, u \in {DataUri(1), toIdbUri(id)},
        th \in {Undefined, "thumbA"} }

LegacyDocs(maxLen) ==
    UNION { { d \in [1..n -> UNION {LegacyEntries(i) : i \in 1..n}] :
                \A i \in 1..n : d[i].id = i } : n \in 0..maxLen }

InitSlots ==
    { SlotText(k, <<>>) : k \in {"absent", "empty", "garbage", "jsonOther"} }
    \cup { JSONstringify(d) : d \in LegacyDocs(MaxInitLen) }

\* the blob store holds the payload of every idb: reference of the document
InitBlobs(list) ==
    [k \in Ids |->
        IF \E i \in 1..Len(list) :
              isIdbUri(list[i].mediaUri) /\ list[i].mediaUri.key = k
        THEN 1 ELSE NoPayload]

InitRest ==
    /\ clock = 1
    /\ captureError = "none"
    /\ newEntry = NoEntry
    /\ saveBlob = NoPayload
    /\ attempts = 0
    /\ migPos = 0
    /\ failedIdx = {}
    /\ noThumbIdx = {}
    /\ putCount = 0
    /\ deriving = {}
    /\ viewId = 0
    /\ unhandled = {}
    /\ lastWrite = NoWrite
    /\ lastRead = NoRead
    /\ overlapped = NoOverlap
    /\ vtIdle
    /\ rsIdle
    /\ plIdle
    /\ tlIdle
    /\ cpIdle

Init ==
    /\ storage \in InitSlots
    /\ blobStore = InitBlobs(storage.items)
    /\ quota \in MinQuota..MaxQuota
    /\ usedIds = {storage.items[i].id : i \in 1..Len(storage.items)}
    /\ pc = "idle"
    /\ wtEntries = <<>>
    /\ updated = <<>>
    /\ migrations = 0
    /\ InitRest

(* ------------------------------ capture page --------------------------- *)
\* What the capture UI hands to onSave (the captured state): nothing, a photo
\* with its thumbnail and, unless canvas.toBlob gave null, its blob, or a
\* recorded video with its blob and the thumbnail of
\* makeVideoThumbnailFromUrl (undefined while or if there is none).
NoCapture == [mediaType |-> "none", thumbUri |-> Undefined, blob |-> NoPayload]

Captures ==
    { [mediaType |-> "photo", thumbUri |-> th, blob |-> b] :
        th \in CapturedThumbs, b \in Payloads \cup {NoPayload} }
    \cup { [mediaType |-> "video", thumbUri |-> th, blob |-> b] :
        th \in CapturedThumbs \cup {Undefined}, b \in Payloads }
    \cup {NoCapture}

\* the capture page is opened again after a save navigated away from it
CaptureMount ==
    /\ pc = "done"
    /\ pc' = "idle"
    /\ captureError' = "none"
    /\ newEntry' = NoEntry
    /\ saveBlob' = NoPayload
    /\ wtEntries' = <<>>
    /\ updated' = <<>>
    /\ migPos' = 0
    /\ attempts' = 0
    /\ migrations' = 0
    /\ failedIdx' = {}
    /\ noThumbIdx' = {}
    /\ putCount' = 0
    /\ overlapped' = NoOverlap
    /\ UNCHANGED <<storage, blobStore, quota, componentVars, usedIds, clock,
                   viewVars, unhandled, lastWrite, lastRead>>

(* ------------------------------ onSave --------------------------------- *)
\* onSave, first guard: no blob, nothing is saved
onSaveNothing ==
    /\ pc \in {"idle", "rejected"}
    /\ \E captured \in Captures : captured.blob = NoPayload
    /\ captureError' = "nothingToSave"
    /\ UNCHANGED <<storage, blobStore, fixedVars, usedIds, clock, saveVars,
                   viewVars, unhandled, lastWrite, lastRead>>

\* onSave, second guard: a video is not saved before its thumbnail is there
onSaveThumbWait ==
    /\ pc \in {"idle", "rejected"}
    /\ \E captured \in Captures :
          /\ captured.blob # NoPayload
          /\ captured.mediaType = "video" /\ captured.thumbUri = Undefined
    /\ captureError' = "thumbGenerating"
    /\ UNCHANGED <<storage, blobStore, fixedVars, usedIds, clock, saveVars,
                   viewVars, unhandled, lastWrite, lastRead>>

\* crypto.randomUUID(): the identifiers a call can return, given the ones
\* returned before; a repeated value is not among them.
randomUUIDRepeating(used) == Ids

randomUUID(used) == Ids \ used

\* onSave up to "await putMedia(entryId, captured.blob)": the timestamp and a
\* fresh identifier are drawn; the entry is built from the values of this
\* render (captured, note), which the handler's closure keeps.  The note
\* block's identifier is a second random UUID, written 0 - id here.  One save
\* is in flight at a time.
onSaveBegin ==
    /\ pc \in {"idle", "rejected"}
    /\ \E captured \in Captures, id \in randomUUID(usedIds), n \in Notes :
          /\ captured.blob # NoPayload
          /\ ~(captured.mediaType = "video" /\ captured.thumbUri = Undefined)
          /\ newEntry' = MkEntry(id, clock, captured.mediaType, toIdbUri(id),
                                 captured.thumbUri,
                                 IF n # "" THEN <<MkBlock(0 - id, clock, n)>>
                                 ELSE <<>>)
          /\ usedIds' = usedIds \cup {id}
          /\ saveBlob' = captured.blob
    /\ clock' = clock + 1
    /\ pc' = "put"
    /\ wtEntries' = <<>>
    /\ updated' = <<>>
    /\ migPos' = 0
    /\ attempts' = 0
    /\ migrations' = 0
    /\ failedIdx' = {}
    /\ noThumbIdx' = {}
    /\ putCount' = 0
    /\ overlapped' = NoOverlap
    /\ UNCHANGED <<storage, blobStore, quota, componentVars, captureError,
                   viewVars, unhandled, lastWrite, lastRead>>

\* await putMedia(entryId, captured.blob) settles; a rejection rejects onSave,
\* whose promise the click handler drops.
onSavePut ==
    /\ pc = "put"
    /\ \E ok \in BOOLEAN :
          LET p == putMedia(blobStore, newEntry.id, saveBlob, ok)
          IN  /\ blobStore' = p.store
              /\ pc' = IF p.threw THEN "rejected" ELSE "write"
              /\ unhandled' = IF p.threw THEN unhandled \cup {"onSave"}
                              ELSE unhandled
    /\ UNCHANGED <<storage, fixedVars, usedIds, clock, captureError, newEntry,
                   saveBlob, wtEntries, updated, migPos, attempts, migrations,
                   failedIdx, noThumbIdx, putCount, viewVars, lastWrite,
                   lastRead>>

\* a first write that serializes the list without its first element
writeTimelineFirstTail(raw, cap, list) ==
    LET r == SetItem(raw, cap, JSONstringify(Tail(list)))
    IN  [slot |-> r.slot, threw |-> r.threw,
         next |-> IF ~r.threw THEN "done"
                  ELSE IF isQuotaExceeded(r.err) THEN "migrate" ELSE "rejected"]

\* writeTimeline(entries) of the capture page up to its first await: the
\* first setItem; a quota error leads to the migration, any other is rethrown.
writeTimelineFirst(raw, cap, list) ==
    LET r == SetItem(raw, cap, JSONstringify(list))
    IN  [slot |-> r.slot, threw |-> r.threw,
         next |-> IF ~r.threw THEN "done"
                  ELSE IF isQuotaExceeded(r.err) THEN "migrate" ELSE "rejected"]

\* onSave after putMedia resolved: builds the entry, reads the index and calls
\* writeTimeline([entry, ...list]); success ends in router.push("/").
onSaveWrite ==
    /\ pc = "write"
    /\ LET rd == readTimelineCapture(storage)
           list == <<newEntry>> \o rd.list
           w == writeTimelineFirst(storage, quota, list)
       IN  /\ wtEntries' = list
           /\ storage' = w.slot
           /\ pc' = w.next
           /\ attempts' = 1
           /\ migrations' = IF w.next = "migrate" THEN 1 ELSE 0
           /\ unhandled' = IF w.next = "rejected" THEN unhandled \cup {"onSave"}
                           ELSE unhandled
           /\ lastWrite' = WriteRec("capture", list, w.threw, FALSE, FALSE,
                                    storage)
    /\ UNCHANGED <<blobStore, fixedVars, usedIds, clock, captureError, newEntry,
                   saveBlob, updated, migPos, failedIdx, noThumbIdx, putCount,
                   viewVars, lastRead>>

\* one iteration of "for (const entry of entries)" in migrateTimelineMedia
migrateStep ==
    /\ pc = "migrate"
    /\ migPos < Len(wtEntries)
    /\ \E env \in MigrateEnvs :
          LET i == migPos + 1
              m == migrateEntry(wtEntries[i], blobStore, env)
          IN  /\ updated' = updated \o m.push
              /\ blobStore' = m.store
              /\ putCount' = putCount + m.puts
              /\ failedIdx' = IF m.failed THEN failedIdx \cup {i} ELSE failedIdx
              /\ noThumbIdx' = IF m.noThumb THEN noThumbIdx \cup {i}
                               ELSE noThumbIdx
    /\ migPos' = migPos + 1
    /\ UNCHANGED <<storage, fixedVars, usedIds, clock, captureError, pc, newEntry,
                   saveBlob, wtEntries, attempts, migrations, viewVars,
                   unhandled, lastWrite, lastRead>>

\* a retry that reads the index again and puts its new entry in front of it
writeTimelineSecondRereading(raw, cap, list) ==
    LET fresh == IF list = <<>> THEN <<>>
                 ELSE <<Head(list)>> \o readTimelineCapture(raw).list
    IN  SetItem(raw, cap, JSONstringify(fresh))

\* localStorage.setItem(KEY, JSON.stringify(updated)) of writeTimeline's
\* catch block: the list migrated from the entries it was called with
writeTimelineSecond(raw, cap, list) ==
    SetItem(raw, cap, JSONstringify(list))

\* writeTimeline after "await migrateTimelineMedia(entries)": the second
\* setItem, outside any try; its error rejects writeTimeline and onSave.
writeTimelineRetry ==
    /\ pc = "migrate"
    /\ attempts = 1
    /\ migPos = Len(wtEntries)
    /\ LET r == writeTimelineSecond(storage, quota, updated)
       IN  /\ storage' = r.slot
           /\ pc' = IF r.threw THEN "rejected" ELSE "done"
           /\ unhandled' = IF r.threw THEN unhandled \cup {"onSave"}
                           ELSE unhandled
           /\ lastWrite' = WriteRec("capture", wtEntries, r.threw, TRUE, FALSE,
                                    storage)
    /\ attempts' = attempts + 1
    /\ UNCHANGED <<blobStore, fixedVars, usedIds, clock, captureError, newEntry,
                   saveBlob, wtEntries, updated, migPos, migrations, failedIdx,
                   noThumbIdx, putCount, viewVars, lastRead>>

(* ------------------------------ timeline page -------------------------- *)
\* the ids of the video entries of a list that have no thumbnail
thumbless(list) ==
    { list[i].id : i \in { j \in 1..Len(list) :
          list[j].mediaType = "video" /\ list[j].thumbUri = Undefined } }

\* load(): setEntries(readTimeline()), run at mount, on the change event, on
\* a storage event for the key and on window focus; the render mounts a
\* VideoThumb for every video entry, and one without thumbnail starts run().
TimelineLoad ==
    /\ deriving' = deriving \cup thumbless(readTimeline(storage).list)
    /\ deriving' # deriving
    /\ UNCHANGED <<storage, blobStore, fixedVars, usedIds, clock, captureError,
                   saveVars, viewId, unhandled, lastWrite, lastRead>>

(* ------------------------------ entry view ----------------------------- *)
\* list.findIndex((e) => e.id === id), 0 for -1
RECURSIVE FindFrom(_, _, _)
FindFrom(list, id, i) ==
    IF i > Len(list) THEN 0
    ELSE IF list[i].id = id THEN i ELSE FindFrom(list, id, i + 1)

findIndex(list, id) == FindFrom(list, id, 1)

\* useEffect([id]): the entry with the requested id is looked up once
EntryMount ==
    /\ \E id \in Ids :
          viewId' = IF findIndex(readTimelineEntry(storage).list, id) = 0
                    THEN 0 ELSE id
    /\ viewId' # viewId
    /\ UNCHANGED <<storage, blobStore, fixedVars, usedIds, clock, captureError,
                   saveVars, deriving, unhandled, lastWrite, lastRead>>

\* the same entry built from a copy of the entry that lost its thumbnail
notesEntryDroppingThumb(old, content, now, uuid) ==
    [old EXCEPT !.thumbUri = Undefined,
                !.textBlocks =
        IF content # ""
        THEN IF Len(old.textBlocks) > 0
             THEN <<[old.textBlocks[1] EXCEPT !.content = content]>>
             ELSE <<MkBlock(uuid, now, content)>>
        ELSE <<>>]

\* the same entry with a new block added for every non-empty draft
notesEntryAppending(old, content, now, uuid) ==
    [old EXCEPT !.textBlocks =
        IF content # ""
        THEN <<MkBlock(uuid, now, content)>> \o old.textBlocks
        ELSE <<>>]

\* the entry onSaveNotes builds from list[idx] and the trimmed draft
notesEntry(old, content, now, uuid) ==
    [old EXCEPT !.textBlocks =
        IF content # ""
        THEN IF Len(old.textBlocks) > 0
             THEN <<[old.textBlocks[1] EXCEPT !.content = content]>>
             ELSE <<MkBlock(uuid, now, content)>>
        ELSE <<>>]

\* a write that empties the slot before it stores
writeTimelineEntryClearing(raw, cap, list) ==
    LET r == SetItem(NoSlot, cap, JSONstringify(list))
    IN  [slot |-> r.slot, threw |-> r.threw, notified |-> ~r.threw]

\* writeTimeline(list) of the entry view: setItem, then the change event
writeTimelineEntry(raw, cap, list) ==
    LET r == SetItem(raw, cap, JSONstringify(list))
    IN  [slot |-> r.slot, threw |-> r.threw, notified |-> ~r.threw]

\* onSaveNotes: read, replace the entry at idx, write.  The block of a first
\* note gets a random UUID, written 0 - MaxIds - id here.
onSaveNotes ==
    /\ viewId # 0
    /\ \E content \in Notes :
          LET list == readTimelineEntry(storage).list
              idx == findIndex(list, viewId)
              next == [list EXCEPT ![idx] =
                          notesEntry(list[idx], content, clock,
                                     0 - MaxIds - viewId)]
              w == writeTimelineEntry(storage, quota, next)
          IN  /\ idx # 0
              /\ storage' = w.slot
              /\ unhandled' = IF w.threw THEN unhandled \cup {"onSaveNotes"}
                              ELSE unhandled
              /\ lastWrite' = WriteRec("notes", next, w.threw, FALSE,
                                       w.notified, storage)
              /\ overlapped' = IF pc = "migrate" /\ ~w.threw
                                THEN [writer |-> "notes", id |-> viewId,
                                      value |-> content]
                                ELSE overlapped
    /\ UNCHANGED <<blobStore, quota, componentVars, usedIds, clock,
                   captureError, saveVars, viewVars, lastRead>>

(* ------------------------------ VideoThumb ----------------------------- *)
\* a map that gives the thumbnail to every entry
withThumbEverywhere(list, entryId, thumbUri) ==
    [i \in 1..Len(list) |-> [list[i] EXCEPT !.thumbUri = thumbUri]]

\* list.map((e) => (e.id === entryId ? { ...e, thumbUri } : e))
withThumb(list, entryId, thumbUri) ==
    [i \in 1..Len(list) |->
        IF list[i].id = entryId THEN [list[i] EXCEPT !.thumbUri = thumbUri]
        ELSE list[i]]

\* writeBackThumb(entryId, thumbUri): read, map, setItem, change event
writeBackThumb(raw, cap, entryId, thumbUri) ==
    LET next == withThumb(readTimelineThumb(raw).list, entryId, thumbUri)
        r == SetItem(raw, cap, JSONstringify(next))
    IN  [slot |-> r.slot, threw |-> r.threw, notified |-> ~r.threw,
         list |-> next]

\* run() of the VideoThumb of entry id, whose derivation produced the
\* thumbnail t: writeBackThumb(entry.id, t).  run() has no catch and nobody
\* awaits it.
thumbWriteBack ==
    /\ \E id \in deriving, t \in DerivedThumbs :
          LET w == writeBackThumb(storage, quota, id, t)
          IN  /\ storage' = w.slot
              /\ unhandled' = IF w.threw THEN unhandled \cup {"VideoThumb.run"}
                              ELSE unhandled
              /\ lastWrite' = WriteRec("thumb", w.list, w.threw, FALSE,
                                       w.notified, storage)
              /\ deriving' = deriving \ {id}
              /\ overlapped' = IF pc = "migrate" /\ ~w.threw
                                THEN [writer |-> "thumb", id |-> id,
                                      value |-> t]
                                ELSE overlapped
    /\ UNCHANGED <<blobStore, quota, componentVars, usedIds, clock,
                   captureError, saveVars, viewId, lastRead>>

\* run() of the VideoThumb of entry id ends without a thumbnail (the source
\* did not resolve, or the derivation gave null): nothing is written.
thumbNone ==
    /\ \E id \in deriving : deriving' = deriving \ {id}
    /\ UNCHANGED <<storage, blobStore, fixedVars, usedIds, clock, captureError,
                   saveVars, viewId, unhandled, lastWrite, lastRead>>

(* ------------------------------ specification -------------------------- *)
Next ==
    \/ CaptureMount
    \/ onSaveNothing
    \/ onSaveThumbWait
    \/ onSaveBegin
    \/ onSavePut
    \/ onSaveWrite
    \/ migrateStep
    \/ writeTimelineRetry
    \/ TimelineLoad
    \/ EntryMount
    \/ onSaveNotes
    \/ thumbWriteBack
    \/ thumbNone

Spec == Init /\ [][Next]_vars


(* ------------------ migrateTimelineMedia on its own -------------------- *)
\* Lists handed to migrateTimelineMedia: legacy entries, with or without a
\* note block.
ListEntries(id) ==
    LegacyEntries(id)
    \cup { [e EXCEPT !.textBlocks = <<MkBlock(0 - id, 0, "note")>>] :
             e \in LegacyEntries(id) }

Lists ==
    UNION { { d \in [1..n -> UNION {ListEntries(i) : i \in 1..n}] :
                \A i \in 1..n : d[i].id = i } : n \in 0..MaxListLen }

InitMigrate ==
    /\ wtEntries \in Lists
    /\ updated = <<>>
    /\ pc = "migrate"
    /\ migrations = 1
    /\ storage = NoSlot
    /\ blobStore = InitBlobs(wtEntries)
    /\ quota = MinQuota
    /\ usedIds = {wtEntries[i].id : i \in 1..Len(wtEntries)}
    /\ InitRest

\* migrateTimelineMedia is called again, on the list it returned when no
\* iteration of the first call had failed
migrateAgain ==
    /\ pc = "migrate"
    /\ migPos = Len(wtEntries)
    /\ failedIdx = {}
    /\ migrations = 1
    /\ migrations' = 2
    /\ wtEntries' = updated
    /\ updated' = <<>>
    /\ migPos' = 0
    /\ putCount' = 0
    /\ UNCHANGED <<storage, blobStore, fixedVars, usedIds, clock, captureError, pc,
                   newEntry, saveBlob, attempts, failedIdx, noThumbIdx,
                   viewVars, unhandled, lastWrite, lastRead>>

NextMigrate == migrateStep \/ migrateAgain

SpecMigrate == InitMigrate /\ [][NextMigrate]_vars

(* ------------------------ readTimeline on its own ---------------------- *)
ReadSlots ==
    { SlotText(k, <<>>) : k \in {"absent", "empty", "garbage", "jsonOther"} }
    \cup { JSONstringify(d) : d \in Lists }

InitRead ==
    /\ storage \in ReadSlots
    /\ blobStore = InitBlobs(storage.items)
    /\ quota = MinQuota
    /\ usedIds = {storage.items[i].id : i \in 1..Len(storage.items)}
    /\ pc = "idle"
    /\ wtEntries = <<>>
    /\ updated = <<>>
    /\ migrations = 0
    /\ InitRest

readUnchanged ==
    UNCHANGED <<storage, blobStore, fixedVars, usedIds, clock, captureError,
                saveVars, viewVars, unhandled, lastWrite>>

\* each of the four copies of readTimeline is called on the slot
readByTimeline ==
    lastRead' = ReadRec("timeline", storage, readTimeline(storage))
    /\ readUnchanged

readByCapture ==
    lastRead' = ReadRec("capture", storage, readTimelineCapture(storage))
    /\ readUnchanged

readByThumb ==
    lastRead' = ReadRec("thumb", storage, readTimelineThumb(storage))
    /\ readUnchanged

readByEntry ==
    lastRead' = ReadRec("entry", storage, readTimelineEntry(storage))
    /\ readUnchanged

NextRead == readByTimeline \/ readByCapture \/ readByThumb \/ readByEntry

SpecRead == InitRead /\ [][NextRead]_vars


(* ---------------------- VideoThumb on its own -------------------------- *)
\* The index holds up to MaxIds entries that fit into the slot, at least one
\* of them a video; a blob-store payload may be missing.
ThumbDocs ==
    { d \in LegacyDocs(MaxIds) :
        /\ TextSize(JSONstringify(d)) <= MaxQuota
        /\ \E i \in 1..Len(d) : d[i].mediaType = "video" }

InitThumb ==
    /\ \E d \in ThumbDocs, present \in BOOLEAN :
          /\ storage = JSONstringify(d)
          /\ blobStore = [k \in Ids |->
                            IF present THEN InitBlobs(d)[k] ELSE NoPayload]
    /\ quota = MaxQuota
    /\ usedIds = {storage.items[i].id : i \in 1..Len(storage.items)}
    /\ pc = "idle"
    /\ wtEntries = <<>>
    /\ updated = <<>>
    /\ migrations = 0
    /\ clock = 1
    /\ captureError = "none"
    /\ newEntry = NoEntry
    /\ saveBlob = NoPayload
    /\ attempts = 0
    /\ migPos = 0
    /\ failedIdx = {}
    /\ noThumbIdx = {}
    /\ putCount = 0
    /\ deriving = {}
    /\ viewId = 0
    /\ unhandled = {}
    /\ lastWrite = NoWrite
    /\ lastRead = NoRead
    /\ overlapped = NoOverlap
    /\ vtIdle
    /\ rsIdle
    /\ plIdle
    /\ tlIdle
    /\ cpIdle

\* the run() calls started so far; the last one belongs to the current effect
curRun == Cardinality({g \in 1..MaxRuns : vtRuns[g].pc # "none"})

\* run() up to its first await: "if (thumb) return; if (entry.mediaType !==
\* "video") return; setBusy(true); ... await resolveVideoUrl(entry.mediaUri)".
\* thumb is the state of the render that created the effect.
runStart(entry, thumb) ==
    IF thumb # Null \/ entry.mediaType # "video"
    THEN [run |-> Run(entry, "ended"), busy |-> FALSE, setBusy |-> FALSE]
    ELSE [run |-> Run(entry, "resolve"), busy |-> TRUE, setBusy |-> TRUE]

\* the effect's cleanup: cancelled = true; the object URL objectUrlRef holds,
\* if any, is revoked and the ref cleared
cleanupRuns(runs) ==
    [g \in 1..MaxRuns |->
        IF g = curRun THEN [runs[g] EXCEPT !.cancelled = TRUE] ELSE runs[g]]

cleanupRevoked ==
    IF objectUrlRef # 0
    THEN [vtRevoked EXCEPT ![objectUrlRef] = @ + 1]
    ELSE vtRevoked

thumbOrNull(entry) == IF entry.thumbUri = Undefined THEN Null ELSE entry.thumbUri

indexUnchanged ==
    UNCHANGED <<storage, blobStore, quota, usedIds, clock, captureError,
                saveVars, viewVars, unhandled, lastWrite, lastRead,
                resolverVars, pipelineVars, overlapped,
                laterVars>>

\* the timeline page renders the VideoThumb of a video entry it read:
\* useState(entry.thumbUri ?? null), and the effect calls run()
vtMount ==
    /\ vtPhase = "new"
    /\ \E i \in 1..Len(readTimeline(storage).list) :
          LET entry == readTimeline(storage).list[i]
              r == runStart(entry, thumbOrNull(entry))
          IN  /\ entry.mediaType = "video"
              /\ vtEntry' = entry
              /\ vtThumb' = thumbOrNull(entry)
              /\ vtBusy' = r.busy
              /\ vtRuns' = [vtRuns EXCEPT ![1] = r.run]
    /\ vtPhase' = "mounted"
    /\ UNCHANGED <<objectUrlRef, vtRevoked, vtAfterCancel>>
    /\ indexUnchanged

\* another writer (an overflow migration) moves the entry's media to the blob
\* store and the page's load() passes the new entry: the subject changes
\* (entry.mediaUri), the effect is cleaned up and run() starts again, with
\* the thumb state of this render; setThumb(entry.thumbUri ?? null) follows
\* if the thumbnail changed too.
vtSubjectChange ==
    /\ vtPhase = "mounted"
    /\ curRun < MaxRuns
    /\ isDataUri(vtEntry.mediaUri)
    /\ \E ok \in BOOLEAN :
          LET m == migrateEntry(vtEntry, blobStore,
                                [decode |-> TRUE, put |-> ok, thumb |-> Null])
              entry == m.push[1]
              r == runStart(entry, vtThumb)
              cleaned == cleanupRuns(vtRuns)
          IN  /\ entry # vtEntry
              /\ blobStore' = m.store
              /\ storage' = JSONstringify(
                    LET list == readTimelineCapture(storage).list
                    IN  [i \in 1..Len(list) |->
                            IF list[i].id = entry.id THEN entry ELSE list[i]])
              /\ vtEntry' = entry
              /\ vtRuns' = [cleaned EXCEPT ![curRun + 1] = r.run]
              /\ vtBusy' = IF r.setBusy THEN TRUE ELSE vtBusy
              /\ vtThumb' = vtThumb
    /\ vtRevoked' = cleanupRevoked
    /\ objectUrlRef' = 0
    /\ UNCHANGED <<vtPhase, vtAfterCancel, quota, usedIds, clock, captureError,
                   saveVars, viewVars, unhandled, lastWrite, lastRead, resolverVars,
                   pipelineVars, overlapped,
                   laterVars>>

\* load() after a change event passes the entry as the index now holds it;
\* with the same id and mediaUri only "setThumb(entry.thumbUri ?? null)" runs
vtRerender ==
    /\ vtPhase = "mounted"
    /\ \E i \in 1..Len(readTimeline(storage).list) :
          LET entry == readTimeline(storage).list[i]
          IN  /\ entry.id = vtEntry.id
              /\ entry.mediaUri = vtEntry.mediaUri
              /\ entry # vtEntry
              /\ vtEntry' = entry
              /\ vtThumb' = thumbOrNull(entry)
    /\ UNCHANGED <<vtPhase, vtBusy, objectUrlRef, vtRuns, vtRevoked,
                   vtAfterCancel>>
    /\ indexUnchanged

\* the page is left: the effect's cleanup runs
vtUnmount ==
    /\ vtPhase = "mounted"
    /\ vtPhase' = "gone"
    /\ vtRuns' = cleanupRuns(vtRuns)
    /\ vtRevoked' = cleanupRevoked
    /\ objectUrlRef' = 0
    /\ UNCHANGED <<vtEntry, vtThumb, vtBusy, vtAfterCancel>>
    /\ indexUnchanged

\* resolveVideoUrl(mediaUri): an idb: reference is fetched from the blob
\* store (getMedia may reject, ok = FALSE) and, if there is a payload, an
\* object URL is created for it (owned); a data: URL is used as it is;
\* anything else resolves to null.
resolveVideoUrl(mediaUri, store, ok) ==
    IF isIdbUri(mediaUri)
    THEN IF ~ok THEN [threw |-> TRUE, res |-> "null", owned |-> FALSE]
         ELSE IF getMedia(store, mediaUri.key) = NoPayload
              THEN [threw |-> FALSE, res |-> "null", owned |-> FALSE]
              ELSE [threw |-> FALSE, res |-> "url", owned |-> TRUE]
    ELSE IF isDataUri(mediaUri)
         THEN [threw |-> FALSE, res |-> "url", owned |-> FALSE]
         ELSE [threw |-> FALSE, res |-> "null", owned |-> FALSE]

\* run() after "await resolveVideoUrl": "if (!resolved) return; if
\* (resolved.owned) objectUrlRef.current = resolved.url;" and then the await
\* of makeVideoThumbFromUrl; "finally { if (!cancelled) setBusy(false) }"
\* when it returns or throws here.  The object URL of run g is written g.
vtResolved ==
    /\ \E g \in 1..MaxRuns, ok \in BOOLEAN :
          LET run == vtRuns[g]
              r == resolveVideoUrl(run.entry.mediaUri, blobStore, ok)
          IN  /\ run.pc = "resolve"
              /\ vtRuns' = [vtRuns EXCEPT ![g] =
                    [run EXCEPT !.pc = IF r.res = "url" THEN "derive"
                                       ELSE "ended",
                                !.minted = r.owned]]
              /\ objectUrlRef' = IF r.owned THEN g ELSE objectUrlRef
              /\ vtAfterCancel' = IF r.owned /\ run.cancelled
                                  THEN vtAfterCancel \cup {"objectUrlRef"}
                                  ELSE vtAfterCancel
              /\ vtBusy' = IF r.res # "url" /\ ~run.cancelled THEN FALSE
                           ELSE vtBusy
              /\ unhandled' = IF r.threw THEN unhandled \cup {"VideoThumb.run"}
                              ELSE unhandled
    /\ UNCHANGED <<vtPhase, vtEntry, vtThumb, vtRevoked, storage, blobStore,
                   quota, usedIds, clock, captureError, saveVars, viewVars,
                   lastWrite, lastRead, resolverVars,
                   pipelineVars, overlapped,
                   laterVars>>

\* run() after "await makeVideoThumbFromUrl(resolved.url)" gave t (a
\* thumbnail or null): "if (cancelled) return; if (t) { setThumb(t);
\* writeBackThumb(entry.id, t) }", and the finally block.
vtDerived ==
    /\ \E g \in 1..MaxRuns, t \in DerivedThumbs \cup {Null} :
          LET run == vtRuns[g]
              w == writeBackThumb(storage, quota, run.entry.id, t)
              writes == ~run.cancelled /\ t # Null
          IN  /\ run.pc = "derive"
              /\ vtRuns' = [vtRuns EXCEPT ![g] =
                    [run EXCEPT !.pc = "ended", !.got = t,
                                !.wrote = IF ~writes THEN "no"
                                          ELSE IF w.threw THEN "threw"
                                          ELSE "stored"]]
              /\ vtThumb' = IF writes THEN t ELSE vtThumb
              /\ storage' = IF writes THEN w.slot ELSE storage
              /\ lastWrite' = IF writes
                              THEN WriteRec("thumb", w.list, w.threw, FALSE,
                                            w.notified, storage)
                              ELSE lastWrite
              /\ unhandled' = IF writes /\ w.threw
                              THEN unhandled \cup {"VideoThumb.run"}
                              ELSE unhandled
              /\ vtBusy' = IF run.cancelled THEN vtBusy ELSE FALSE
    /\ UNCHANGED <<vtPhase, vtEntry, objectUrlRef, vtRevoked, vtAfterCancel,
                   blobStore, quota, usedIds, clock, captureError, saveVars,
                   viewVars, lastRead, resolverVars,
                   pipelineVars, overlapped,
                   laterVars>>

NextThumb ==
    \/ vtMount
    \/ vtSubjectChange
    \/ vtRerender
    \/ vtUnmount
    \/ vtResolved
    \/ vtDerived

SpecThumb == InitThumb /\ [][NextThumb]_vars

(* ------------------ useResolvedMediaUrl on its own --------------------- *)
\* The values a caller passes as mediaUri: null, an inline data URL, or a
\* blob-store reference; a referenced payload may be missing.
ResolverUris == {NullUrl, DataUri(1)} \cup {toIdbUri(k) : k \in Ids}

InitResolver ==
    /\ storage = NoSlot
    /\ blobStore \in [Ids -> Payloads \cup {NoPayload}]
    /\ quota = MinQuota
    /\ usedIds = {}
    /\ pc = "idle"
    /\ wtEntries = <<>>
    /\ updated = <<>>
    /\ migrations = 0
    /\ InitRest

\* the effects started so far; the last one is the current one
curEffect == Cardinality({g \in 1..MaxEffects : rsEffects[g].pc # "none"})

\* run() of an effect up to its first await: "if (!mediaUri) { setUrl(null);
\* return }  if (!isIdbUri(mediaUri)) { setUrl(mediaUri); return }  ...
\* await getMedia(key)"
runSync(g, mediaUri) ==
    IF mediaUri = NullUrl
    THEN [effect |-> Effect(mediaUri, "done"),
          last |-> Resolved(g, "null", NullUrl, FALSE, FALSE, FALSE)]
    ELSE IF ~isIdbUri(mediaUri)
    THEN [effect |-> Effect(mediaUri, "done"),
          last |-> Resolved(g, "inline", mediaUri, FALSE, FALSE, FALSE)]
    ELSE [effect |-> Effect(mediaUri, "pending"),
          last |-> Resolved(g, "pending", NoUrl, FALSE, FALSE, FALSE)]

\* run() that publishes whatever its fetch gave, without "if (!active) return"
runAfterFetchAlways(g, active, blob, threw) ==
    IF threw THEN Resolved(g, "rejected", NoUrl, FALSE, FALSE, TRUE)
    ELSE IF blob = NoPayload
    THEN Resolved(g, "missing", NullUrl, FALSE, TRUE, FALSE)
    ELSE Resolved(g, "found", BlobUrl(g), TRUE, FALSE, FALSE)

\* run() that creates an object URL without "if (!blob)"
runAfterFetchNoBlobTest(g, active, blob, threw) ==
    IF threw THEN Resolved(g, "rejected", NoUrl, FALSE, FALSE, TRUE)
    ELSE IF ~active THEN Resolved(g, "stale", NoUrl, FALSE, FALSE, FALSE)
    ELSE IF blob = NoPayload
    THEN Resolved(g, "missing", BlobUrl(g), TRUE, FALSE, FALSE)
    ELSE Resolved(g, "found", BlobUrl(g), TRUE, FALSE, FALSE)

\* run() after "await getMedia(key)": "if (!active) return;  if (!blob) {
\* console.warn(...); setUrl(null); return }  objectUrl =
\* URL.createObjectURL(blob); setUrl(objectUrl)".  A rejected getMedia
\* rejects run(), which nobody awaits.
runAfterFetch(g, active, blob, threw) ==
    IF threw THEN Resolved(g, "rejected", NoUrl, FALSE, FALSE, TRUE)
    ELSE IF ~active THEN Resolved(g, "stale", NoUrl, FALSE, FALSE, FALSE)
    ELSE IF blob = NoPayload
    THEN Resolved(g, "missing", NullUrl, FALSE, TRUE, FALSE)
    ELSE Resolved(g, "found", BlobUrl(g), TRUE, FALSE, FALSE)

\* a cleanup that forgets the object URL
cleanupRevokesNone(effect, count) == count

\* the cleanup of an effect: "active = false; if (objectUrl)
\* URL.revokeObjectURL(objectUrl)"
cleanupRevokes(effect, count) ==
    IF effect.minted THEN count + 1 ELSE count

cleanupEffect(effects, revoked) ==
    LET g == curEffect
    IN  [effects |-> [effects EXCEPT ![g].active = FALSE],
         revoked |-> [revoked EXCEPT ![g] = cleanupRevokes(effects[g], @)]]

resolverOnly ==
    UNCHANGED <<storage, blobStore, quota, usedIds, clock, captureError,
                saveVars, viewVars, lastWrite, lastRead, thumbVars,
                pipelineVars, overlapped,
                laterVars>>

\* first render with mediaUri: useState(mediaUri ?? null), then the effect
rsMount ==
    /\ rsPhase = "new"
    /\ \E mediaUri \in ResolverUris :
          LET r == runSync(1, mediaUri)
          IN  /\ rsUri' = mediaUri
              /\ rsUrl' = IF r.last.url = NoUrl THEN mediaUri ELSE r.last.url
              /\ rsEffects' = [rsEffects EXCEPT ![1] = r.effect]
              /\ rsLast' = r.last
    /\ rsPhase' = "mounted"
    /\ UNCHANGED <<rsRevoked, unhandled>>
    /\ resolverOnly

\* a render with another mediaUri: the cleanup of the current effect, then
\* the next effect
rsChange ==
    /\ rsPhase = "mounted"
    /\ curEffect < MaxEffects
    /\ \E mediaUri \in ResolverUris \ {rsUri} :
          LET g == curEffect + 1
              c == cleanupEffect(rsEffects, rsRevoked)
              r == runSync(g, mediaUri)
          IN  /\ rsUri' = mediaUri
              /\ rsUrl' = IF r.last.url = NoUrl THEN rsUrl ELSE r.last.url
              /\ rsEffects' = [c.effects EXCEPT ![g] = r.effect]
              /\ rsRevoked' = c.revoked
              /\ rsLast' = r.last
    /\ UNCHANGED <<rsPhase, unhandled>>
    /\ resolverOnly

\* the caller unmounts: the cleanup of the current effect
rsUnmount ==
    /\ rsPhase = "mounted"
    /\ rsPhase' = "gone"
    /\ LET c == cleanupEffect(rsEffects, rsRevoked)
       IN  /\ rsEffects' = c.effects
           /\ rsRevoked' = c.revoked
    /\ UNCHANGED <<rsUri, rsUrl, rsLast, unhandled>>
    /\ resolverOnly

\* the getMedia call of effect g settles (it rejects when the database
\* cannot be opened or read, ok = FALSE) and run() goes on to its end
rsFetched ==
    /\ \E g \in 1..MaxEffects, ok \in BOOLEAN :
          LET e == rsEffects[g]
              r == runAfterFetch(g, e.active, getMedia(blobStore, e.uri.key),
                                 ~ok)
          IN  /\ e.pc = "pending"
              /\ rsEffects' = [rsEffects EXCEPT ![g].pc = "done",
                                                ![g].minted = r.minted]
              /\ rsUrl' = IF r.url = NoUrl THEN rsUrl ELSE r.url
              /\ rsLast' = r
              /\ unhandled' = IF r.raised
                              THEN unhandled \cup {"useResolvedMediaUrl.run"}
                              ELSE unhandled
    /\ UNCHANGED <<rsPhase, rsUri, rsRevoked>>
    /\ resolverOnly

NextResolver ==
    \/ rsMount
    \/ rsChange
    \/ rsUnmount
    \/ rsFetched

SpecResolver == InitResolver /\ [][NextResolver]_vars

(* ------------------ the video thumbnail functions ---------------------- *)
InitPipeline ==
    /\ storage = NoSlot
    /\ blobStore = [k \in Ids |-> NoPayload]
    /\ quota = MinQuota
    /\ usedIds = {}
    /\ pc = "idle"
    /\ wtEntries = <<>>
    /\ updated = <<>>
    /\ migrations = 0
    /\ InitRest

pipelineOnly ==
    UNCHANGED <<storage, blobStore, quota, usedIds, clock, captureError,
                saveVars, viewVars, unhandled, lastWrite, lastRead, thumbVars,
                resolverVars, overlapped,
                laterVars>>

\* "const w = video.videoWidth || 1280; const h = video.videoHeight || 720;
\* if (!w || !h) return finish(null); ... getContext("2d"); if (!ctx) return
\* finish(null); ctx.drawImage(video, 0, 0, w, h);
\* finish(canvas.toDataURL("image/jpeg", 0.85))", inside try/catch whose
\* catch is finish(null)
renderFrame(src) ==
    LET w == IF src.videoWidth # 0 THEN src.videoWidth ELSE 1280
        h == IF src.videoHeight # 0 THEN src.videoHeight ELSE 720
    IN  IF w = 0 \/ h = 0 THEN Null
        ELSE IF ~src.ctx THEN Null
        ELSE IF ~src.draw THEN Null
        ELSE "thumbB"

\* resolve(value) of the promise: a promise keeps its first value
resolve(p, value) ==
    IF p.resolved THEN p
    ELSE [p EXCEPT !.resolved = TRUE, !.result = value]

\* a finish without its flag, whose last call decides the value
finishOverwriting(p, thumb) ==
    [p EXCEPT !.done = TRUE, !.resolved = TRUE, !.result = thumb,
              !.calls = IF @ < MaxCalls THEN @ + 1 ELSE @]

\* finish(thumb): "if (done) return; done = true; ... resolve(thumb)"
finish(p, thumb) ==
    LET q == [p EXCEPT !.calls = IF @ < MaxCalls THEN @ + 1 ELSE @]
    IN  IF q.done THEN q
        ELSE resolve([q EXCEPT !.done = TRUE], thumb)

\* the function is called: the video element is created, the listeners for
\* error and loadedmetadata are added, src is set and load() called; an
\* exception on the way is caught and resolves null
plStart ==
    /\ pl.phase = "idle"
    /\ \E fn \in {"VideoThumb", "capture"}, src \in Sources :
          pl' = IF src.setup THEN Pipeline(fn, src, "loading", Null)
                ELSE resolve(Pipeline(fn, src, "end", Null), Null)
    /\ pipelineOnly

\* the error event, which its listener takes once: finish(null).  It can
\* come while the source loads, while the loadedmetadata handler waits, and
\* after the handler has finished; once finish has run while the source
\* loads, src is removed and no loadedmetadata follows.
plError ==
    /\ pl.phase \in {"loading", "seek", "data", "paint", "end"}
    /\ pl.src.setup
    /\ pl.src.error
    /\ ~pl.errored
    /\ pl' = finish([pl EXCEPT !.errored = TRUE,
                               !.phase = IF @ = "loading" THEN "end" ELSE @],
                    Null)
    /\ pipelineOnly

\* the loadedmetadata event: the handler seeks to a positive target and
\* waits for seeked, or waits for loadeddata, each with a timeout
plMetadata ==
    /\ pl.phase = "loading"
    /\ pl.src.meta
    /\ pl' = [pl EXCEPT !.phase = IF pl.src.duration > 0 THEN "seek"
                                  ELSE "data"]
    /\ pipelineOnly

\* after waitFor: makeVideoThumbFromUrl waits 50 ms more before it renders,
\* makeVideoThumbnailFromUrl renders at once and calls finish
afterWait(p) ==
    IF p.fn = "VideoThumb" THEN [p EXCEPT !.phase = "paint"]
    ELSE finish([p EXCEPT !.phase = "end"], renderFrame(p.src))

\* waitFor: the awaited event fires
plWaited ==
    /\ \/ pl.phase = "seek" /\ pl.src.seeked
       \/ pl.phase = "data" /\ pl.src.loadeddata
    /\ pl' = afterWait(pl)
    /\ pipelineOnly

\* waitFor: the timer fires
plTimeout ==
    /\ pl.phase \in {"seek", "data"}
    /\ pl' = afterWait(pl)
    /\ pipelineOnly

\* makeVideoThumbFromUrl: the 50 ms timer fires, the frame is rendered and
\* finish is called
plPaint ==
    /\ pl.phase = "paint"
    /\ pl' = finish([pl EXCEPT !.phase = "end"], renderFrame(pl.src))
    /\ pipelineOnly

NextPipeline ==
    \/ plStart
    \/ plError
    \/ plMetadata
    \/ plWaited
    \/ plTimeout
    \/ plPaint

SpecPipeline == InitPipeline /\ [][NextPipeline]_vars

(* ---------------------- the timeline page's subscription --------------- *)
KEY == "ponto.timeline.v1"
EVT == "ponto-timeline-updated"
OtherKey == "another.key"

\* The index holds what an earlier run or another tab can have left in it.
TimelineDocs ==
    { d \in LegacyDocs(MaxInitLen) : TextSize(JSONstringify(d)) <= MaxQuota }

InitTimeline ==
    /\ \E d \in TimelineDocs :
          /\ storage = JSONstringify(d)
          /\ blobStore = InitBlobs(d)
          /\ usedIds = {d[i].id : i \in 1..Len(d)}
    /\ quota = MaxQuota
    /\ pc = "idle"
    /\ wtEntries = <<>>
    /\ updated = <<>>
    /\ migrations = 0
    /\ InitRest

timelineOnly ==
    UNCHANGED <<blobStore, quota, usedIds, clock, captureError, saveVars,
                viewVars, lastWrite, lastRead, overlapped, thumbVars,
                resolverVars, pipelineVars, reviewVars>>

\* the handlers of the effect: onCustom and onFocus call load(), onStorage
\* calls it for the index key only
handles(listeners, type, key) ==
    type \in listeners /\ (type = "storage" => key = KEY)

\* an event of the given type reaches window: the registered handler, if it
\* handles the event, runs load() = setEntries(readTimeline())
dispatchEvent(listeners, type, key, entries, raw) ==
    IF handles(listeners, type, key)
    THEN [entries |-> readTimeline(raw).list, loaded |-> TRUE]
    ELSE [entries |-> entries, loaded |-> FALSE]

\* a cleanup that leaves the storage handler registered
removeListenersButStorage(listeners) == listeners \ {EVT, "focus"}

\* the effect's cleanup: removeEventListener for the three handlers
removeListeners(listeners) == listeners \ {EVT, "storage", "focus"}

\* the effect of the first render: load(), then the three addEventListener
tlMount ==
    /\ tlPhase \in {"new", "gone"}
    /\ tlPhase' = "mounted"
    /\ tlEntries' = readTimeline(storage).list
    /\ tlListeners' = tlListeners \cup {EVT, "storage", "focus"}
    /\ UNCHANGED <<storage, unhandled, tlPending, tlLast>>
    /\ timelineOnly

\* the page is left: the cleanup runs
tlUnmount ==
    /\ tlPhase = "mounted"
    /\ tlPhase' = "gone"
    /\ tlListeners' = removeListeners(tlListeners)
    /\ UNCHANGED <<storage, unhandled, tlEntries, tlPending, tlLast>>
    /\ timelineOnly

\* a VideoThumb of the mounted page writes a thumbnail back: setItem, then,
\* if it stored, the change event, dispatched synchronously
tlWriteBack ==
    /\ tlPhase = "mounted"
    /\ \E i \in 1..Len(tlEntries), t \in DerivedThumbs :
          LET w == writeBackThumb(storage, quota, tlEntries[i].id, t)
              e == dispatchEvent(tlListeners, EVT, "none", tlEntries, w.slot)
          IN  /\ tlEntries[i].mediaType = "video"
              /\ tlEntries[i].thumbUri = Undefined
              /\ storage' = w.slot
              /\ unhandled' = IF w.threw THEN unhandled \cup {"VideoThumb.run"}
                              ELSE unhandled
              /\ tlEntries' = IF w.notified THEN e.entries ELSE tlEntries
              /\ tlLast' = IF w.notified
                           THEN Event(EVT, "none", tlPhase = "mounted",
                                      e.loaded)
                           ELSE tlLast
    /\ UNCHANGED <<tlPhase, tlListeners, tlPending>>
    /\ timelineOnly

\* the entry view, which the same tab shows instead of the timeline, saves
\* notes: setItem, then, if it stored, the change event
tlNotesSave ==
    /\ tlPhase # "mounted"
    /\ \E id \in Ids, content \in Notes :
          LET list == readTimelineEntry(storage).list
              idx == findIndex(list, id)
              next == [list EXCEPT ![idx] =
                          notesEntry(list[idx], content, clock, 0 - MaxIds - id)]
              w == writeTimelineEntry(storage, quota, next)
              e == dispatchEvent(tlListeners, EVT, "none", tlEntries, w.slot)
          IN  /\ idx # 0
              /\ storage' = w.slot
              /\ unhandled' = IF w.threw THEN unhandled \cup {"onSaveNotes"}
                              ELSE unhandled
              /\ tlEntries' = IF w.notified THEN e.entries ELSE tlEntries
              /\ tlLast' = IF w.notified
                           THEN Event(EVT, "none", tlPhase = "mounted",
                                      e.loaded)
                           ELSE tlLast
    /\ UNCHANGED <<tlPhase, tlListeners, tlPending>>
    /\ timelineOnly

\* another tab stores a document under the index key, or a value under
\* another key: this tab's window gets a storage event later
tlOtherTab ==
    /\ \/ \E d \in LegacyDocs(MaxInitLen) :
             /\ storage' = SetItem(storage, quota, JSONstringify(d)).slot
             /\ storage' # storage
             /\ tlPending' = tlPending \cup {KEY}
       \/ /\ storage' = storage
          /\ tlPending' = tlPending \cup {OtherKey}
          /\ OtherKey \notin tlPending
    /\ UNCHANGED <<unhandled, tlPhase, tlEntries, tlListeners, tlLast>>
    /\ timelineOnly

\* a storage event is delivered
tlStorage ==
    /\ \E key \in tlPending :
          LET e == dispatchEvent(tlListeners, "storage", key, tlEntries,
                                 storage)
          IN  /\ tlPending' = tlPending \ {key}
              /\ tlEntries' = e.entries
              /\ tlLast' = Event("storage", key, tlPhase = "mounted", e.loaded)
    /\ UNCHANGED <<storage, unhandled, tlPhase, tlListeners>>
    /\ timelineOnly

\* the window gets the focus
tlFocus ==
    /\ LET e == dispatchEvent(tlListeners, "focus", "none", tlEntries, storage)
       IN  /\ tlEntries' = e.entries
           /\ tlLast' = Event("focus", "none", tlPhase = "mounted", e.loaded)
    /\ tlLast' # tlLast
    /\ UNCHANGED <<storage, unhandled, tlPhase, tlListeners, tlPending>>
    /\ timelineOnly

NextTimeline ==
    \/ tlMount
    \/ tlUnmount
    \/ tlWriteBack
    \/ tlNotesSave
    \/ tlOtherTab
    \/ tlStorage
    \/ tlFocus

SpecTimeline == InitTimeline /\ [][NextTimeline]_vars

(* ---------------------- the capture page's review state ---------------- *)
InitReview ==
    /\ storage = NoSlot
    /\ blobStore = [k \in Ids |-> NoPayload]
    /\ quota = MinQuota
    /\ usedIds = {}
    /\ pc = "idle"
    /\ wtEntries = <<>>
    /\ updated = <<>>
    /\ migrations = 0
    /\ InitRest

reviewOnly ==
    UNCHANGED <<storage, blobStore, quota, usedIds, clock, saveVars, viewVars,
                unhandled, lastWrite, lastRead, overlapped, thumbVars,
                resolverVars, pipelineVars, timelineVars>>

\* the recorder.onstop calls made so far
stopped == Cardinality({g \in 1..MaxRecordings : recordings[g].pc # "none"})

\* "if (previewUrlRef.current) URL.revokeObjectURL(previewUrlRef.current)"
revokePreview(ref, counts) ==
    IF ref # 0 THEN [counts EXCEPT ![ref] = @ + 1] ELSE counts

\* snapPhoto: the frame's data URL becomes the captured photo, with its
\* thumbnail (or the data URL itself) and, unless toBlob gave null, its blob
snapPhoto ==
    /\ cpPhase = "live"
    /\ cpCaptured = NoCaptured
    /\ \E th \in CapturedThumbs, blob \in Payloads \cup {NoPayload} :
          /\ cpCaptured' = Captured("photo", DataUri(1), th, blob)
          /\ captureError' = IF blob = NoPayload THEN "captureFailed"
                             ELSE captureError
    /\ UNCHANGED <<cpPhase, previewUrlRef, recordings, cpRevoked>>
    /\ reviewOnly

\* recorder.onstop up to "await makeVideoThumbnailFromUrl(playbackUrl)": an
\* empty recording is reported; otherwise the preview object URL is created,
\* the one previewUrlRef holds is revoked, and captured is set without a
\* thumbnail.  A recording starts only while nothing is captured.
onstop ==
    /\ cpPhase = "live"
    /\ cpCaptured = NoCaptured
    /\ stopped < MaxRecordings
    /\ \E empty \in BOOLEAN, blob \in Payloads :
          LET g == stopped + 1
          IN  IF empty
              THEN /\ recordings' = [recordings EXCEPT
                                        ![g] = Recording("ended", FALSE)]
                   /\ captureError' = "emptyRecording"
                   /\ UNCHANGED <<cpCaptured, previewUrlRef, cpRevoked>>
              ELSE /\ recordings' = [recordings EXCEPT
                                        ![g] = Recording("deriving", TRUE)]
                   /\ cpRevoked' = revokePreview(previewUrlRef, cpRevoked)
                   /\ previewUrlRef' = g
                   /\ cpCaptured' = Captured("video", BlobUrl(g), Undefined,
                                             blob)
                   /\ UNCHANGED captureError
    /\ UNCHANGED cpPhase
    /\ reviewOnly

\* recorder.onstop after the await: setCaptured with the recording's own
\* playbackUrl and blob and the thumbnail (undefined for null).  React drops
\* the state update of a component that has unmounted.
onstopDerived ==
    /\ \E g \in 1..MaxRecordings, t \in CapturedThumbs \cup {Null},
          blob \in Payloads :
          /\ recordings[g].pc = "deriving"
          /\ recordings' = [recordings EXCEPT ![g] = Recording("ended", TRUE)]
          /\ cpCaptured' = IF cpPhase = "live"
                           THEN Captured("video", BlobUrl(g),
                                         OrUndefined(t), blob)
                           ELSE cpCaptured
    /\ UNCHANGED <<cpPhase, previewUrlRef, cpRevoked, captureError>>
    /\ reviewOnly

\* onRetake: the preview URL is revoked and the ref cleared; captured, the
\* note and the error are reset
onRetake ==
    /\ cpPhase = "live"
    /\ cpCaptured # NoCaptured
    /\ cpRevoked' = revokePreview(previewUrlRef, cpRevoked)
    /\ previewUrlRef' = 0
    /\ cpCaptured' = NoCaptured
    /\ captureError' = "none"
    /\ UNCHANGED <<cpPhase, recordings>>
    /\ reviewOnly

\* the page is left (after a save, or by navigation): the mount effect's
\* cleanup revokes the preview URL and clears the ref
cpUnmount ==
    /\ cpPhase = "live"
    /\ cpPhase' = "gone"
    /\ cpRevoked' = revokePreview(previewUrlRef, cpRevoked)
    /\ previewUrlRef' = 0
    /\ UNCHANGED <<cpCaptured, recordings, captureError>>
    /\ reviewOnly

NextReview ==
    \/ snapPhoto
    \/ onstop
    \/ onstopDerived
    \/ onRetake
    \/ cpUnmount

SpecReview == InitReview /\ [][NextReview]_vars

(* ------------------------------ properties ----------------------------- *)
\* the persisted index as every reader sees it
Persisted == ReadSlot(storage).list

\* C1: every persisted entry whose mediaUri is idb:<key> has a payload under
\* <key> in the blob store, in every reachable state (no payload is ever
\* deleted).
C1_ReferenceIntegrity ==
    \A i \in 1..Len(Persisted) :
        isIdbUri(Persisted[i].mediaUri)
            => getMedia(blobStore, Persisted[i].mediaUri.key) # NoPayload

\* a capture save went through the migration and its retry stored a document
\* holding the new entry and a migrated legacy entry
C1_Witness ==
    /\ pc = "done" /\ attempts = 2 /\ putCount > 0
    /\ Len(Persisted) = 2
    /\ \A i \in 1..2 : isIdbUri(Persisted[i].mediaUri)

\* the migration of the current writeTimeline call has returned
MigrationReturned ==
    /\ migrations = 1
    /\ pc \in {"migrate", "done", "rejected"}
    /\ migPos = Len(wtEntries)

\* the document the retry serializes
Retried == JSONstringify(updated)

C3_FatalIsVisible ==
    /\ attempts <= 2
    /\ migrations <= 1
    /\ (pc = "rejected" /\ attempts = 2) => captureError # "none"

\* C4: an overflow of any index write (capture save, notes save, thumbnail
\* write-back) is answered by the migration and one retry; only the overflow
\* of that retry reaches the caller.
C4_OverflowRecovered ==
    \/ lastWrite.ok
    \/ lastWrite.migrated
    \/ (lastWrite.writer = "capture" /\ pc = "migrate")

\* C5: a write attempt that failed, by whichever writer, leaves the slot
\* holding exactly the document it held before the attempt.
C5_FailedWriteKeepsDocument ==
    ~lastWrite.ok => storage = lastWrite.before

\* a notes save or write-back overflowed on a slot holding a document
C5_Witness ==
    /\ ~lastWrite.ok
    /\ lastWrite.writer \in {"notes", "thumb"}
    /\ Len(Persisted) > 0


\* C9 as stated: after a write that completed, reading the index gives the
\* entries that were passed to the write, field by field and in order.
C9_RoundTrip ==
    (lastWrite.writer # "none" /\ lastWrite.ok) => Persisted = lastWrite.passed

\* what the migration may have made of a passed entry p in the entry r read
MigratedFrom(r, p) ==
    /\ r.id = p.id
    /\ r.createdAt = p.createdAt
    /\ r.mediaType = p.mediaType
    /\ r.textBlocks = p.textBlocks
    /\ \/ r.mediaUri = p.mediaUri /\ r.thumbUri = p.thumbUri
       \/ /\ isDataUri(p.mediaUri)
          /\ r.mediaUri = toIdbUri(p.id)
          /\ \/ r.thumbUri = p.thumbUri
             \/ p.mediaType = "photo" /\ p.thumbUri = Undefined

\* C9 amended: the read gives the passed entries unless the capture save's
\* first write overflowed; then it gives, in the same order, entries that
\* differ from the passed ones only in the mediaUri (now idb:<id>) and, for
\* photos that had none, the thumbUri of entries that were inline.
C9_RoundTripOrMigrated ==
    (lastWrite.writer # "none" /\ lastWrite.ok) =>
        IF lastWrite.migrated
        THEN /\ Len(Persisted) = Len(lastWrite.passed)
             /\ \A i \in 1..Len(Persisted) :
                    MigratedFrom(Persisted[i], lastWrite.passed[i])
        ELSE Persisted = lastWrite.passed

\* the retry after a migration stored a document that differs from the list
\* passed to writeTimeline
C9_Witness ==
    /\ lastWrite.ok /\ lastWrite.migrated
    /\ Persisted # lastWrite.passed

(* ---------------- properties of migrateTimelineMedia ------------------- *)
\* C6: an entry whose conversion or put raised is in the migrated list as it
\* was, still inline; the entries around it are migrated all the same and the
\* loop goes on to the end of the list.
C6_FailedEntryKept ==
    /\ Len(updated) = migPos
    /\ \A i \in failedIdx :
          /\ i <= Len(updated)
          /\ updated[i] = wtEntries[i]
          /\ isDataUri(updated[i].mediaUri)
    /\ \A j \in 1..Len(updated) :
          (j \notin failedIdx /\ isDataUri(wtEntries[j].mediaUri))
              => updated[j].mediaUri = toIdbUri(wtEntries[j].id)
    /\ (failedIdx # {} /\ migPos < Len(wtEntries)) => ENABLED migrateStep

\* the first entry failed, the second, inline too, was migrated after it
C6_Witness ==
    /\ migrations = 1
    /\ migPos = Len(wtEntries)
    /\ failedIdx = {1}
    /\ Len(updated) = 2
    /\ isDataUri(wtEntries[2].mediaUri)
    /\ isIdbUri(updated[2].mediaUri)

\* C7: the migrated list has the entries of the input in the same order; an
\* entry that already had a blob-store key is unchanged; of the others only
\* the mediaUri and, for a photo without one, the thumbUri change.
C7_MigrationFrame ==
    /\ Len(updated) = migPos
    /\ \A i \in 1..Len(updated) :
          LET u == updated[i]
              w == wtEntries[i]
          IN  /\ u.id = w.id
              /\ u.createdAt = w.createdAt
              /\ u.mediaType = w.mediaType
              /\ u.textBlocks = w.textBlocks
              /\ isIdbUri(w.mediaUri) => u = w
              /\ u.mediaUri # w.mediaUri =>
                    isDataUri(w.mediaUri) /\ u.mediaUri = toIdbUri(w.id)
              /\ u.thumbUri # w.thumbUri =>
                    /\ u.mediaUri # w.mediaUri
                    /\ w.mediaType = "photo"
                    /\ w.thumbUri = Undefined

\* a list with an entry already in the blob store and an inline video without
\* thumbnail, carrying a note, has been migrated
C7_Witness ==
    /\ migrations = 1
    /\ migPos = 2 /\ Len(wtEntries) = 2
    /\ isIdbUri(wtEntries[1].mediaUri)
    /\ isDataUri(wtEntries[2].mediaUri)
    /\ wtEntries[2].mediaType = "video"
    /\ wtEntries[2].thumbUri = Undefined
    /\ wtEntries[2].textBlocks # <<>>
    /\ isIdbUri(updated[2].mediaUri)

\* C8: migrating the output of a migration in which nothing failed changes
\* no entry and puts nothing into the blob store.
C8_MigrationIdempotent ==
    migrations = 2 =>
        /\ putCount = 0
        /\ \A i \in 1..Len(updated) : updated[i] = wtEntries[i]

\* the second migration has gone through the two-entry list the first returned
C8_Witness ==
    /\ migrations = 2
    /\ migPos = Len(wtEntries)
    /\ Len(wtEntries) = 2
    /\ \A i \in 1..2 : isIdbUri(wtEntries[i].mediaUri)
    /\ getMedia(blobStore, 1) # NoPayload /\ getMedia(blobStore, 2) # NoPayload

(* ---------------------- properties of readTimeline --------------------- *)
\* what the slot holds when it holds the text of an array, else nothing
StoredArray(raw) ==
    IF raw.kind = "jsonArray"
    THEN [i \in 1..Len(raw.items) |-> parseEntry(raw.items[i])]
    ELSE <<>>

\* C10: readTimeline never raises; it gives the empty list for an absent slot,
\* for text that is no JSON and for JSON that is no array, and the stored
\* array otherwise; the slot is as it was.
C10_ReadNeverFails ==
    lastRead.by # "none" =>
        /\ ~lastRead.raised
        /\ lastRead.list = StoredArray(lastRead.raw)
        /\ storage = lastRead.raw

\* the entry view has read a slot holding text that is no JSON
C10_Witness ==
    /\ lastRead.by = "entry"
    /\ lastRead.raw.kind = "garbage"
    /\ lastRead.list = <<>>

\* C11: every index write that stored (by the capture save, the notes save or
\* the thumbnail write-back) was followed by a dispatch of the
\* ponto-timeline-updated event, and a write that failed by none.
C11_WriteNotifies ==
    lastWrite.writer # "none" => (lastWrite.notified <=> lastWrite.ok)

\* C12: a run() of VideoThumb whose derivation produced a thumbnail has
\* written it back to the index and fired the change event (unless setItem
\* threw), whether or not the view was unmounted before the derivation ended.
C12_WriteBackAfterUnmount ==
    \A g \in 1..MaxRuns :
        (vtRuns[g].pc = "ended" /\ vtRuns[g].got # Null
            /\ vtRuns[g].wrote # "threw")
        => vtRuns[g].wrote = "stored"

\* the view is gone and none of its run() calls is in flight
vtQuiet ==
    /\ vtPhase = "gone"
    /\ \A g \in 1..MaxRuns : vtRuns[g].pc \in {"none", "ended"}

\* C17: no object URL created by resolveVideoUrl is revoked twice, and once
\* the view is gone and its runs have ended, every one of them has been
\* revoked (exactly once).
C17_RevokedExactlyOnce ==
    /\ \A g \in 1..MaxRuns : vtRevoked[g] <= 1
    /\ vtQuiet => \A g \in 1..MaxRuns : vtRuns[g].minted => vtRevoked[g] = 1

\* C18: a run() whose effect was cleaned up (subject change or unmount)
\* changes no shared state afterwards: not the thumb state, the index, the
\* busy flag, nor objectUrlRef.
C18_CancelledRunInert ==
    vtAfterCancel = {}

\* C13: an object URL created by an effect of useResolvedMediaUrl is not
\* revoked while that effect is the current one, and has been revoked exactly
\* once from the moment the effect was cleaned up (mediaUri changed or the
\* caller unmounted); no URL is revoked twice and nothing else is revoked.
C13_RevokedOnce ==
    \A g \in 1..MaxEffects :
        /\ rsRevoked[g] <= 1
        /\ rsRevoked[g] = 1 => rsEffects[g].minted
        /\ rsEffects[g].minted =>
              rsRevoked[g] = (IF rsEffects[g].active THEN 0 ELSE 1)

\* the caller is gone after three references: the first and the third were
\* resolved to object URLs, the second changed while its fetch was pending
C13_Witness ==
    /\ rsPhase = "gone"
    /\ rsEffects[1].minted /\ rsRevoked[1] = 1
    /\ isIdbUri(rsEffects[2].uri) /\ rsEffects[2].pc = "done"
    /\ ~rsEffects[2].minted
    /\ rsEffects[3].minted /\ rsRevoked[3] = 1

\* C14: the url useResolvedMediaUrl returns to its mounted caller is never
\* an object URL that has been revoked.
C14_NoUseAfterRevoke ==
    (rsPhase = "mounted" /\ rsUrl.scheme = "blob") => rsRevoked[rsUrl.key] = 0

\* C15: when the getMedia call of an effect that is no longer the current
\* one (or whose caller is gone) completes, no object URL is created and url
\* is left as it is; a completion that changes url belongs to the mediaUri
\* of the last render.
C15_StaleDiscarded ==
    [][\A g \in 1..MaxEffects :
          (rsEffects[g].pc = "pending" /\ rsEffects'[g].pc = "done") =>
              /\ (g # curEffect \/ rsPhase # "mounted") =>
                    (rsUrl' = rsUrl /\ ~rsEffects'[g].minted)
              /\ rsUrl' # rsUrl => rsEffects[g].uri = rsUri]_vars

\* a fetch for an earlier reference, whose payload exists, completed after
\* the fetch for the current one had published its object URL
C15_Witness ==
    /\ rsPhase = "mounted"
    /\ rsLast.kind = "stale"
    /\ rsLast.gen < curEffect
    /\ getMedia(blobStore, rsEffects[rsLast.gen].uri.key) # NoPayload
    /\ rsEffects[curEffect].minted
    /\ rsUrl = BlobUrl(curEffect)

\* C16: a run() that found no payload under the key called setUrl(null),
\* logged a warning, did not reject and created no object URL; a run() on an
\* inline reference passed that reference to setUrl and created nothing; no
\* object URL exists for a key without payload and nothing is ever revoked
\* for an effect that created none.
C16_MissingIsNull ==
    /\ rsLast.kind = "missing" =>
          /\ rsLast.url = NullUrl /\ rsUrl = NullUrl
          /\ rsLast.warned /\ ~rsLast.raised /\ ~rsLast.minted
          /\ ~rsEffects[rsLast.gen].minted
    /\ rsLast.kind = "inline" =>
          /\ rsLast.url = rsEffects[rsLast.gen].uri /\ rsUrl = rsLast.url
          /\ ~rsLast.warned /\ ~rsLast.raised /\ ~rsLast.minted
          /\ ~rsEffects[rsLast.gen].minted
    /\ \A g \in 1..MaxEffects :
          /\ rsEffects[g].minted =>
                getMedia(blobStore, rsEffects[g].uri.key) # NoPayload
          /\ ~rsEffects[g].minted => rsRevoked[g] = 0

\* a reference to a missing payload was resolved to null and its caller has
\* unmounted since
C16_Witness ==
    /\ rsPhase = "gone"
    /\ rsLast.kind = "missing"
    /\ isIdbUri(rsUri)
    /\ getMedia(blobStore, rsUri.key) = NoPayload

\* C19: a call of a video thumbnail function on a source that reports zero
\* duration or a zero dimension, or that fails to decode (error fires, no
\* metadata), resolves with null.
C19_NoThumbnailForBadSource ==
    (/\ pl.resolved
     /\ \/ pl.src.duration = 0
        \/ pl.src.videoWidth = 0
        \/ pl.src.videoHeight = 0
        \/ pl.src.error /\ ~pl.src.meta)
    => pl.result = Null

\* C20: a call of a video thumbnail function that has not settled can always
\* take a step, whatever events the source fires or never fires: it never
\* waits on an event alone.
C20_NeverWaitsForever ==
    (pl.phase # "idle" /\ ~pl.resolved) => ENABLED NextPipeline

\* C21: no asynchronous operation lets a rejection escape: the promise of the
\* capture save handler, of a VideoThumb run and of a media resolver run is
\* never rejected with nobody to catch it.
C21_NoUnhandledRejection ==
    unhandled = {}

\* C22: the entries of the persisted index have pairwise different ids, in
\* every reachable state: after capture saves, migrations, notes saves and
\* thumbnail write-backs.
C22_UniqueIds ==
    \A i, j \in 1..Len(Persisted) :
        Persisted[i].id = Persisted[j].id => i = j

\* a capture save whose first write overflowed stored, on its retry, the new
\* entry in front of a migrated earlier one
C22_Witness ==
    /\ lastWrite.writer = "capture" /\ lastWrite.ok /\ lastWrite.migrated
    /\ Len(Persisted) = 2
    /\ Persisted[1].id = newEntry.id
    /\ Persisted[2].id # newEntry.id

\* what the timeline can show for an entry without fetching its payload: a
\* photo needs a thumbUri or an inline mediaUri
Showable(e) ==
    e.mediaType = "photo" => (e.thumbUri # Undefined \/ isDataUri(e.mediaUri))

\* C23: a photo entry built by a capture save has a thumbUri, and no later
\* operation takes a photo that had a thumbUri or an inline mediaUri to one
\* with a blob-store mediaUri and no thumbUri: after a capture save that
\* stored the migrated list, every entry that was showable in the list passed
\* to writeTimeline is showable in the persisted index.
C23_PhotoStaysShowable ==
    /\ pc # "idle" => Showable(newEntry)
    /\ (lastWrite.writer = "capture" /\ lastWrite.ok /\ lastWrite.migrated) =>
          \A i \in 1..Len(wtEntries) :
              (i <= Len(Persisted) /\ Showable(wtEntries[i]))
                  => Showable(Persisted[i])

\* C24: a capture save whose retry stored leaves in the slot exactly the list
\* migrated from the entries it read before its first write, as a well-formed
\* array, whatever another writer stored in between: the other writer's
\* effect is lost.
C24_StaleSnapshotWins ==
    (/\ pc = "done"
     /\ lastWrite.writer = "capture" /\ lastWrite.ok /\ lastWrite.migrated) =>
        /\ storage.kind = "jsonArray"
        /\ Persisted = updated
        /\ Len(Persisted) = Len(wtEntries)

\* a notes save stored a note on an entry while a capture save was migrating;
\* the capture save's retry then stored its list, in which that entry has no
\* note
C24_Witness ==
    /\ pc = "done"
    /\ lastWrite.writer = "capture" /\ lastWrite.ok /\ lastWrite.migrated
    /\ overlapped.writer = "notes" /\ overlapped.value # ""
    /\ storage.kind = "jsonArray"
    /\ \E i \in 1..Len(Persisted) :
          /\ Persisted[i].id = overlapped.id
          /\ Persisted[i].textBlocks = <<>>

\* a step in which onSaveNotes or writeBackThumb called setItem
NotesStep ==
    lastWrite'.writer = "notes" /\ (lastWrite' # lastWrite \/ storage' # storage)

ThumbStep ==
    lastWrite'.writer = "thumb" /\ (lastWrite' # lastWrite \/ storage' # storage)

\* C25: a notes save and a thumbnail write-back never undo each other: each
\* reads and writes in one step and builds its entry from the document it has
\* just read, so a notes save keeps the thumbUri of every persisted entry and
\* a write-back keeps the notes of every persisted entry.
C25_NoClobber ==
    [][/\ (NotesStep /\ lastWrite'.ok) =>
            /\ Len(Persisted') = Len(Persisted)
            /\ \A i \in 1..Len(Persisted) :
                  Persisted'[i].thumbUri = Persisted[i].thumbUri
       /\ (ThumbStep /\ lastWrite'.ok) =>
            /\ Len(Persisted') = Len(Persisted)
            /\ \A i \in 1..Len(Persisted) :
                  Persisted'[i].textBlocks = Persisted[i].textBlocks]_vars

\* an entry carries the note of a notes save and the thumbnail of a write-back
\* that stored after it
C25_Witness ==
    /\ lastWrite.writer = "thumb" /\ lastWrite.ok
    /\ \E i \in 1..Len(Persisted) :
          /\ Persisted[i].thumbUri \in DerivedThumbs
          /\ Len(Persisted[i].textBlocks) = 1
          /\ Persisted[i].textBlocks[1].id = 0 - MaxIds - Persisted[i].id
          /\ Persisted[i].textBlocks[1].content # ""

C28_SubscribedWhileMounted ==
    /\ tlListeners = IF tlPhase = "mounted" THEN {EVT, "storage", "focus"}
                     ELSE {}
    /\ tlLast.type # "none" =>
          (tlLast.loaded <=>
              (tlLast.live /\ (tlLast.type = "storage" => tlLast.key = KEY)))
    /\ (tlPhase = "mounted" /\ KEY \notin tlPending) => tlEntries = Persisted

\* the mounted page shows a thumbnail that a write-back stored after the
\* mount: the change event made it read the index again
C28_Witness ==
    /\ tlPhase = "mounted"
    /\ tlLast = Event(EVT, "none", TRUE, TRUE)
    /\ tlEntries = Persisted
    /\ \E i \in 1..Len(tlEntries) : tlEntries[i].thumbUri \in DerivedThumbs

\* C29: a thumbnail derivation that Retake or the unmount superseded does not
\* change the capture page: a recording shown as captured is the one
\* previewUrlRef holds and its preview URL has not been revoked; every
\* preview URL is revoked at most once, and once the page is gone every one
\* that was created has been revoked.
C29_SupersededDerivationInert ==
    /\ (cpPhase = "live" /\ cpCaptured.mediaType = "video") =>
          /\ previewUrlRef = cpCaptured.mediaUri.key
          /\ cpRevoked[cpCaptured.mediaUri.key] = 0
    /\ \A g \in 1..MaxRecordings :
          /\ cpRevoked[g] <= 1
          /\ (cpPhase = "gone" /\ recordings[g].minted) => cpRevoked[g] = 1

====
